---- MODULE Spec2Model ----
(***************************************************************************)
(* A model of build.py, the script that builds a bootable ISO and an OVA   *)
(* for a git project.  The script is one sequential run: pc is the place   *)
(* the run has reached, every external command is a step whose exit        *)
(* status the environment chooses, and the files the run leaves behind     *)
(* are state.                                                              *)
(***************************************************************************)
EXTENDS Integers, Sequences, FiniteSets, TLC

\* ------------------------------------------------------------------ bounds
MaxLines == 2        \* lines of a package list (SpecPkg)
MaxInstances == 2    \* runs of the script at the same time on one host (SpecMd)

\* ----------------------------------------------------------------- values
Status == {0, 1}                 \* an exit status: zero, or not
\* the flavors mappings of the manifests, as the sequences of their keys
FlavorLists == {<<>>, <<"prod">>, <<"dev">>, <<"dev", "prod">>, <<"dev", "test">>}
Whitespace == {" "}
None == ""                       \* an argument or manifest entry not given

Stages == <<"Start", "SourceAcquired", "ManifestResolved", "CustomfilesRendered",
            "PackagesFetched", "ImageAssembled", "ArtifactWritten">>

\* sequences over S of length at most n
RECURSIVE SeqsUpTo(_, _)
SeqsUpTo(S, n) ==
    IF n = 0 THEN {<<>>}
    ELSE LET shorter == SeqsUpTo(S, n - 1)
         IN  shorter \cup {Append(s, x) : s \in shorter, x \in S}

Range(s) == {s[i] : i \in DOMAIN s}

\* ------------------------------------------------------- pure functions
\* str.lstrip() / str.rstrip() / str.strip() on a line of characters
RECURSIVE LStrip(_)
LStrip(s) ==
    IF s = <<>> THEN <<>>
    ELSE IF Head(s) \in Whitespace THEN LStrip(Tail(s)) ELSE s

RECURSIVE RStrip(_)
RStrip(s) ==
    IF s = <<>> THEN <<>>
    ELSE IF s[Len(s)] \in Whitespace THEN RStrip(SubSeq(s, 1, Len(s) - 1)) ELSE s

\* str.strip() that strips the left end only
StripMutantLeftOnly(s) == LStrip(s)

Strip(s) == RStrip(LStrip(s))

\* the names a package-list file adds to the set: strip every line, keep the
\* non-blank ones
PackageNames(lines) == {Strip(lines[i]) : i \in {j \in DOMAIN lines : Strip(lines[j]) # <<>>}}

\* a join that gives the first name only
JoinMutantFirstOnly(names, sep) == IF names = <<>> THEN <<>> ELSE <<Head(names)>>

\* sep.join(names), as the sequence of its pieces
RECURSIVE Join(_, _)
Join(names, sep) ==
    IF names = <<>> THEN <<>>
    ELSE IF Len(names) = 1 THEN names
    ELSE <<Head(names), sep>> \o Join(Tail(names), sep)

\* builds.get("flavors", {})
GetFlavors(b) == IF b.has_flavors THEN b.flavors ELSE <<>>

\* --------------------------------------------------------------- paths
\* A path is the sequence of its components; a first component "/" makes it
\* absolute.  NoPath is the empty string, which is also what a manifest entry
\* that is not given counts as.
NoPath == <<>>
IsAbsolute(p) == p # <<>> /\ Head(p) = "/"

\* pathlib's a / b: an absolute right operand replaces the left one
PathJoin(a, b) == IF IsAbsolute(b) THEN b ELSE a \o b

\* str.lstrip("/")
RECURSIVE LStripSlash(_)
LStripSlash(p) == IF IsAbsolute(p) THEN LStripSlash(Tail(p)) ELSE p

\* the file the system reaches through a path: each ".." leaves the
\* directory reached so far, except at the root
RECURSIVE ResolveFrom(_, _)
ResolveFrom(done, rest) ==
    IF rest = <<>> THEN done
    ELSE IF Head(rest) = ".."
         THEN ResolveFrom(IF Len(done) > 1 THEN SubSeq(done, 1, Len(done) - 1) ELSE done,
                          Tail(rest))
         ELSE ResolveFrom(Append(done, Head(rest)), Tail(rest))

Resolve(p) == ResolveFrom(<<>>, p)

\* the file at path p is dir or lies under it
Under(dir, p) == Len(dir) <= Len(p) /\ SubSeq(p, 1, Len(dir)) = dir

tmp_dir == <<"/", "tmp", "build">>                   \* line 79
customfiles_dir == tmp_dir \o <<"customfiles">>      \* line 162
repo_dir == <<"/", "home", "repo">>                  \* the path of --repo
cwd == <<"/", "home", "out">>                        \* line 278

\* builds.get("name", "unnamed") and builds.get("app_dir", "/opt/app")
AppName(b) == IF b.name = None THEN "unnamed" ELSE b.name
AppDir(b) == IF b.app_dir = NoPath THEN <<"/", "opt", "app">> ELSE b.app_dir

\* ----------------------------------------------------------- templates
\* The content of a file is the sequence of its tokens: "{{" name "}}" is an
\* expression, "\n" a newline, anything else text.  A context maps variable
\* names to contents.
NoContext == [k \in {} |-> <<>>]
SyntaxError == <<"TemplateSyntaxError">>

\* a variable the context does not define renders as nothing
Lookup(variables, name) == IF name \in DOMAIN variables THEN variables[name] ELSE <<>>

\* jinja2 drops one newline at the end of a template's source
DropTrailingNewline(s) ==
    IF s # <<>> /\ s[Len(s)] = "\n" THEN SubSeq(s, 1, Len(s) - 1) ELSE s

\* every expression gives way to the value of its variable; an expression
\* that is not closed is a syntax error
RECURSIVE Substitute(_, _)
Substitute(s, variables) ==
    IF s = <<>> THEN <<>>
    ELSE IF Head(s) = "{{"
         THEN IF Len(s) >= 3 /\ s[3] = "}}"
              THEN LET rest == Substitute(SubSeq(s, 4, Len(s)), variables)
                   IN  IF rest = SyntaxError THEN SyntaxError
                       ELSE Lookup(variables, s[2]) \o rest
              ELSE SyntaxError
         ELSE LET rest == Substitute(Tail(s), variables)
              IN  IF rest = SyntaxError THEN SyntaxError ELSE <<Head(s)>> \o rest

\* template.render(**variables), line 44
Render(source, variables) == Substitute(DropTrailingNewline(source), variables)

\* lines 32-44 with dest = source: the file holds the render of what it held
render_to_file(source, variables) == Render(source, variables)

\* a call f(source, dest, **flavor, name=...) raises TypeError when the
\* mapping has a key that is a parameter of f or one of the names given
Positional == {"source", "dest"}
KeywordClash(flavor, keywords) == DOMAIN flavor \cap (Positional \cup DOMAIN keywords) # {}

\* the variables render_to_file gets from **flavor and the keywords
Variables(flavor, keywords) ==
    [k \in DOMAIN flavor \cup DOMAIN keywords |->
        IF k \in DOMAIN keywords THEN keywords[k] ELSE flavor[k]]

\* ---------------------------------------------------------------- trees
\* A tree of files maps the relative path of each file to its content.
EmptyTree == [p \in {} |-> <<>>]

\* cp -r with the directory that does not exist yet as its target
CopyNew(src) == src

\* cp -r src/ dest with the base tree winning where both have the path
CopyOverMutantKeepsDest(dest, src) ==
    [p \in DOMAIN dest \cup DOMAIN src |-> IF p \in DOMAIN dest THEN dest[p] ELSE src[p]]

\* cp -r src/ dest: the content of src goes into dest, over what is there
CopyOver(dest, src) ==
    [p \in DOMAIN dest \cup DOMAIN src |-> IF p \in DOMAIN src THEN src[p] ELSE dest[p]]

\* the walk of lines 172-182
RenderTree(tree, variables) == [p \in DOMAIN tree |-> render_to_file(tree[p], variables)]

\* -------------------------------------------------------------- the state
VARIABLES
    pc,             \* the statement the run is at
    args,           \* the parsed command line
    stage,          \* the pipeline stage completed last, or "Aborted"
    exit_code,      \* <<the process's exit code>>, <<>> until it ends
    stderr,         \* the message the run ended with, if any
    tmp_state,      \* the temporary directory: "absent", "present", "removed"
    tmp_files,      \* the entries the run has made in the temporary directory
    dirty,          \* git diff-index reported changes
    version_name,   \* fragment, or date plus hash
    builds,         \* the loaded builds.yaml
    app_pkg_file,   \* the application's package list in the source tree
    base_pkg_file,  \* packages.txt in the current directory
    packages,       \* the set of package names
    fetch_log,      \* the pkg fetch calls made, with their exit status
    ran,            \* the external operations the run has executed
    failed,         \* those of them that exited non-zero
    md_exists,      \* /dev/md10 exists
    mfs_iso,        \* an .iso lies in the mfsbsd directory
    ova,            \* the file at the .ova output path
    iso_kept,       \* a standalone .iso lies in the current directory
    base_tree,      \* the customfiles directory of the customfiles repository
    overlay_tree,   \* the application's customfiles in the source tree
    work_tree,      \* the entries of the source tree, as paths under git_dir
    customfiles_tree, \* the files of tmp/customfiles, as last written
    cf_ctx,         \* the variables the customfiles were rendered with
    embedded,       \* the entries of the copy of the source after line 234
    rm_paths,       \* the files rm -rf was called on
    ovf_ctx,        \* the variables the OVF descriptor was rendered with
    ova_name,       \* the name of the archive in the current directory
    ova_members,    \* the entries of the archive
    md_pc,          \* concurrent runs: where each is in lines 243-247
    md_cmds         \* concurrent runs: the commands each has issued

vars == <<pc, args, stage, exit_code, stderr, tmp_state, tmp_files, dirty,
          version_name, builds, app_pkg_file, base_pkg_file, packages, fetch_log,
          ran, failed, md_exists, mfs_iso, ova, iso_kept, base_tree, overlay_tree,
          work_tree, customfiles_tree, cf_ctx, embedded, rm_paths, ovf_ctx, ova_name,
          ova_members, md_pc, md_cmds>>

inputs == <<args, app_pkg_file, base_pkg_file, base_tree, overlay_tree, work_tree>>
outputs == <<ova, iso_kept>>
rendered == <<customfiles_tree, cf_ctx>>
assembled == <<embedded, rm_paths, ovf_ctx, ova_name, ova_members>>
instances == <<md_pc, md_cmds>>

NoMessage == [msg |-> "", arg |-> <<>>]
NoBuilds == [has_flavors |-> FALSE, flavors |-> <<>>, customfiles |-> NoPath,
             script |-> FALSE, packages |-> None, name |-> None, app_dir |-> NoPath,
             vars |-> NoContext]

Args == [in_place : BOOLEAN, force : BOOLEAN, iso : BOOLEAN,
         prefix : {None, "out"}, flavor : {"prod"},
         scheme : {"file", "https"}, fragment : {None, "v1.2"}]

\* the manifests a builds.yaml can hold
Manifests ==
    {b \in [has_flavors : BOOLEAN,
            flavors : FlavorLists,
            customfiles : {NoPath, <<"deploy">>}, script : BOOLEAN,
            packages : {None, "pkglist.txt"},
            name : {"foo"}, app_dir : {NoPath},
            vars : {[hostname |-> <<"web1">>]}] :
        ~b.has_flavors => b.flavors = <<>>}

\* what the run has made and done when it starts, or reaches a place no
\* later than the step that makes it
NothingRendered ==
    /\ customfiles_tree = EmptyTree
    /\ cf_ctx = NoContext

NothingAssembled ==
    /\ embedded = {}
    /\ rm_paths = {}
    /\ ovf_ctx = NoContext
    /\ ova_name = <<>>
    /\ ova_members = <<>>

\* one run, which has not reached line 243
OneInstance ==
    /\ md_pc = <<"before">>
    /\ md_cmds = << <<>> >>

InitWith(ArgSet, AppFiles, BaseFiles) ==
    /\ pc = "args"
    /\ args \in ArgSet
    /\ app_pkg_file \in AppFiles
    /\ base_pkg_file \in BaseFiles
    /\ stage = "Start"
    /\ exit_code = <<>>
    /\ stderr = NoMessage
    /\ tmp_state = "absent"
    /\ tmp_files = {}
    /\ dirty = FALSE
    /\ version_name = None
    /\ builds = NoBuilds
    /\ packages = {}
    /\ fetch_log = <<>>
    /\ ran = {}
    /\ failed = {}
    /\ md_exists \in BOOLEAN
    /\ mfs_iso = FALSE
    /\ ova = "absent"
    /\ iso_kept = FALSE
    /\ NothingRendered
    /\ NothingAssembled
    /\ OneInstance

\* ------------------------------------------------------------ leaving
\* the same without the with block: nothing removes the directory
ExitMutantKeepTmp(code) ==
    /\ pc' = "exited"
    /\ exit_code' = <<code>>
    /\ UNCHANGED <<tmp_state, tmp_files>>

\* an exit that returns to its caller, and the run goes on
ExitMutantReturns(code) ==
    /\ exit_code' = <<code>>
    /\ UNCHANGED <<pc, tmp_state, tmp_files>>

\* the process ends: the with block of the temporary directory is left on
\* the way out, which removes the directory
Exit(code) ==
    /\ pc' = "exited"
    /\ exit_code' = <<code>>
    /\ tmp_state' = IF tmp_state = "present" THEN "removed" ELSE tmp_state
    /\ tmp_files' = {}

fatal_error(s, a) ==
    /\ stderr' = [msg |-> s, arg |-> a]
    /\ stage' = "Aborted"
    /\ Exit(1)

\* an exception nothing catches: the traceback, and exit code 1
Raise(exc) ==
    /\ stderr' = [msg |-> exc, arg |-> <<>>]
    /\ stage' = "Aborted"
    /\ Exit(1)

\* the run goes on to the next statement
Goto(next) ==
    /\ pc' = next
    /\ UNCHANGED <<exit_code, stderr, stage, tmp_state>>

\* an external command ran and gave this exit status
Call(op, status) ==
    /\ ran' = ran \cup {op}
    /\ failed' = IF status # 0 THEN failed \cup {op} ELSE failed

\* an external command ran whose exit status the script does not look at and
\* no file of the model depends on
CallIgnored(ops) ==
    /\ ran' = ran \cup ops
    /\ UNCHANGED failed

NoCall == UNCHANGED <<ran, failed>>

\* ------------------------------------------------- the source acquirer
\* lines 71-73: --in-place needs a file:// repository
CheckArgs ==
    /\ pc = "args"
    /\ IF args.in_place /\ args.scheme # "file"
       THEN fatal_error("the --repo argument must start with file://", <<>>)
       ELSE Goto("mktemp") /\ UNCHANGED tmp_files
    /\ NoCall
    /\ UNCHANGED <<inputs, rendered, assembled, instances, outputs, dirty, version_name, builds, packages,
                   fetch_log, md_exists, mfs_iso>>

\* lines 79-87: the temporary directory, and src in it unless in place
EnterTmp ==
    /\ pc = "mktemp"
    /\ pc' = "acquire"
    /\ tmp_state' = "present"
    /\ tmp_files' = IF args.in_place THEN {} ELSE {"src"}
    /\ NoCall
    /\ UNCHANGED <<inputs, rendered, assembled, instances, outputs, exit_code, stderr, stage, dirty, version_name,
                   builds, packages, fetch_log, md_exists, mfs_iso>>

\* lines 91-95: git_dir has a .git directory, which only the user's own
\* directory of an in-place run can have: src was made empty
Fetch ==
    /\ pc = "acquire"
    /\ args.in_place
    /\ \E status \in Status :
        /\ Call("git fetch", status)
        /\ IF status # 0
           THEN fatal_error("Could not fetch the repo", <<>>)
           ELSE Goto("diff") /\ UNCHANGED tmp_files
    /\ UNCHANGED <<inputs, rendered, assembled, instances, outputs, dirty, version_name, builds, packages,
                   fetch_log, md_exists, mfs_iso>>

\* lines 96-100: no .git directory in git_dir
Clone ==
    /\ pc = "acquire"
    /\ \E status \in Status :
        /\ Call("git clone", status)
        /\ IF status # 0
           THEN fatal_error("Could not clone the repo", <<>>)
           ELSE Goto("diff") /\ UNCHANGED tmp_files
    /\ UNCHANGED <<inputs, rendered, assembled, instances, outputs, dirty, version_name, builds, packages,
                   fetch_log, md_exists, mfs_iso>>

\* lines 102-105, with the test on --force dropped
DirtyCheckMutantNoAbort ==
    /\ pc = "diff"
    /\ IF args.in_place
       THEN \E status \in Status :
            /\ Call("git diff-index", status)
            /\ dirty' = (status # 0)
            /\ Goto("checkout") /\ UNCHANGED tmp_files
       ELSE NoCall /\ Goto("checkout") /\ UNCHANGED <<tmp_files, dirty>>
    /\ UNCHANGED <<inputs, rendered, assembled, instances, outputs, version_name, builds, packages, fetch_log,
                   md_exists, mfs_iso>>

\* lines 102-105: an in-place run stops on uncommitted changes unless forced
DirtyCheck ==
    /\ pc = "diff"
    /\ IF args.in_place
       THEN \E status \in Status :
            /\ Call("git diff-index", status)
            /\ dirty' = (status # 0)
            /\ IF status # 0 /\ ~args.force
               THEN fatal_error("There are untracked changes in the repo", <<>>)
               ELSE Goto("checkout") /\ UNCHANGED tmp_files
       ELSE NoCall /\ Goto("checkout") /\ UNCHANGED <<tmp_files, dirty>>
    /\ UNCHANGED <<inputs, rendered, assembled, instances, outputs, version_name, builds, packages, fetch_log,
                   md_exists, mfs_iso>>

\* lines 108-112: check the fragment out
Checkout ==
    /\ pc = "checkout"
    /\ IF args.fragment # None
       THEN \E status \in Status :
            /\ Call("git checkout", status)
            /\ IF status # 0
               THEN fatal_error("Could not checkout the version of the repo",
                                <<args.fragment>>)
               ELSE Goto("hash") /\ UNCHANGED tmp_files
       ELSE NoCall /\ Goto("hash") /\ UNCHANGED tmp_files
    /\ UNCHANGED <<inputs, rendered, assembled, instances, outputs, dirty, version_name, builds, packages,
                   fetch_log, md_exists, mfs_iso>>

\* lines 115-120: the short hash through hash.txt (the status of rev-parse is
\* not looked at: a failed rev-parse leaves the file, and the hash, empty)
GetHash ==
    /\ pc = "hash"
    /\ \E status \in Status :
        /\ Call("git rev-parse", status)
        /\ version_name' =
              IF args.fragment # None THEN args.fragment
              ELSE IF status = 0 THEN "date-hash" ELSE "date-"
    /\ tmp_files' = tmp_files \cup {"hash.txt"}
    /\ pc' = "manifest"
    /\ stage' = "SourceAcquired"
    /\ UNCHANGED <<inputs, rendered, assembled, instances, outputs, exit_code, stderr, tmp_state, dirty, builds,
                   packages, fetch_log, md_exists, mfs_iso>>

\* ------------------------------------------------- the manifest resolver
\* lines 125-133: builds.yaml is missing (the message is built by adding a
\* Path to a str, a TypeError), malformed (exit(1)), or loads
LoadManifest ==
    /\ pc = "manifest"
    /\ \/ Raise("TypeError") /\ UNCHANGED builds
       \/ /\ stderr' = [msg |-> "YAMLError", arg |-> <<>>]
          /\ stage' = "Aborted"
          /\ Exit(1)
          /\ UNCHANGED builds
       \/ \E b \in Manifests :
            /\ builds' = b
            /\ Goto("flavor") /\ UNCHANGED tmp_files
    /\ NoCall
    /\ UNCHANGED <<inputs, rendered, assembled, instances, outputs, dirty, version_name, packages, fetch_log,
                   md_exists, mfs_iso>>

\* lines 135-141: the flavor asked for must be one of the manifest's
SelectFlavor ==
    /\ pc = "flavor"
    /\ IF args.flavor \notin Range(GetFlavors(builds))
       THEN fatal_error("Flavor not found. Choices are:",
                        <<args.flavor>> \o Join(GetFlavors(builds), ", "))
       ELSE /\ pc' = "customfiles_src"
            /\ stage' = "ManifestResolved"
            /\ UNCHANGED <<exit_code, stderr, tmp_state, tmp_files>>
    /\ NoCall
    /\ UNCHANGED <<inputs, rendered, assembled, instances, outputs, dirty, version_name, builds, packages,
                   fetch_log, md_exists, mfs_iso>>

\* ----------------------------------------------- the customfiles renderer
\* lines 146-155: the customfiles repository is copied (file://) or cloned
CustomfilesSrc ==
    /\ pc = "customfiles_src"
    /\ \E scheme \in {"file", "https"}, status \in Status :
        /\ Call("customfiles copy", status)
        /\ IF status # 0
           THEN fatal_error(IF scheme = "file" THEN "Could not cp customfiles from"
                            ELSE "Tried to clone and it blew up", <<>>)
           ELSE Goto("customfiles_checkout")
                /\ tmp_files' = tmp_files \cup {"customfiles_src"}
    /\ UNCHANGED <<inputs, rendered, assembled, instances, outputs, dirty, version_name, builds, packages,
                   fetch_log, md_exists, mfs_iso>>

\* lines 157-159: the customfiles locator's fragment, if any, is checked out
CustomfilesCheckout ==
    /\ pc = "customfiles_checkout"
    /\ \E customfiles_version \in {None, "v2"} :
        IF customfiles_version # None
        THEN \E status \in Status :
             /\ Call("customfiles copy", status)
             /\ IF status # 0
                THEN fatal_error("Tried to perform a git checkout and it blew up", <<>>)
                ELSE Goto("customfiles_cp") /\ UNCHANGED tmp_files
        ELSE NoCall /\ Goto("customfiles_cp") /\ UNCHANGED tmp_files
    /\ UNCHANGED <<inputs, rendered, assembled, instances, outputs, dirty, version_name, builds, packages,
                   fetch_log, md_exists, mfs_iso>>

\* lines 161-164: its customfiles directory becomes the output tree
CopyCustomfiles ==
    /\ pc = "customfiles_cp"
    /\ \E status \in Status :
        /\ Call("customfiles copy", status)
        /\ IF status # 0
           THEN fatal_error("Could not cp customfiles", <<>>)
           ELSE Goto("customfiles_merge")
                /\ tmp_files' = tmp_files \cup {"customfiles"}
        /\ customfiles_tree' = IF status = 0 THEN CopyNew(base_tree) ELSE customfiles_tree
    /\ UNCHANGED <<inputs, cf_ctx, assembled, instances, outputs, dirty, version_name, builds, packages,
                   fetch_log, md_exists, mfs_iso>>

\* lines 166-169: the application's own customfiles are copied over it
MergeCustomfiles ==
    /\ pc = "customfiles_merge"
    /\ IF builds.customfiles # NoPath
       THEN \E status \in Status :
            /\ Call("customfiles copy", status)
            /\ IF status # 0
               THEN fatal_error("Could not cp customfiles from the git repo", <<>>)
               ELSE Goto("render") /\ UNCHANGED tmp_files
            /\ customfiles_tree' = IF status = 0
                                   THEN CopyOver(customfiles_tree, overlay_tree)
                                   ELSE customfiles_tree
       ELSE NoCall /\ Goto("render") /\ UNCHANGED <<tmp_files, customfiles_tree>>
    /\ UNCHANGED <<inputs, cf_ctx, assembled, instances, outputs, dirty, version_name, builds, packages,
                   fetch_log, md_exists, mfs_iso>>

\* the keywords of the call of lines 175-182
CustomfilesKeywords ==
    [app_name |-> <<AppName(builds)>>, flavor_name |-> <<args.flavor>>,
     app_dir |-> AppDir(builds)]

\* lines 171-182: every file of the tree is rendered in place.  The first
\* call raises TypeError when the flavor has a key the call names too; a
\* file jinja2 cannot load as a template raises
RenderCustomfiles ==
    /\ pc = "render"
    /\ IF customfiles_tree # EmptyTree /\ KeywordClash(builds.vars, CustomfilesKeywords)
       THEN /\ Raise("TypeError")
            /\ UNCHANGED <<ran, rendered>>
       ELSE \/ /\ \A p \in DOMAIN customfiles_tree :
                     Render(customfiles_tree[p], Variables(builds.vars, CustomfilesKeywords))
                        # SyntaxError
               /\ ran' = ran \cup {"render customfiles"}
               /\ customfiles_tree' =
                     RenderTree(customfiles_tree, Variables(builds.vars, CustomfilesKeywords))
               /\ cf_ctx' = Variables(builds.vars, CustomfilesKeywords)
               /\ pc' = "script"
               /\ stage' = "CustomfilesRendered"
               /\ UNCHANGED <<exit_code, stderr, tmp_state, tmp_files>>
            \/ /\ Raise("TemplateError")
               /\ UNCHANGED <<ran, rendered>>
    /\ UNCHANGED <<inputs, assembled, instances, outputs, failed, dirty, version_name, builds, packages,
                   fetch_log, md_exists, mfs_iso>>

\* lines 187-191: the application's build script, if it has one
RunScript ==
    /\ pc = "script"
    /\ IF builds.script
       THEN \E status \in Status :
            /\ Call("build script", status)
            /\ IF status # 0
               THEN fatal_error("The build script blew up", <<>>)
               ELSE Goto("packages_dir") /\ UNCHANGED tmp_files
       ELSE NoCall /\ Goto("packages_dir") /\ UNCHANGED tmp_files
    /\ UNCHANGED <<inputs, rendered, assembled, instances, outputs, dirty, version_name, builds, packages,
                   fetch_log, md_exists, mfs_iso>>

\* --------------------------------------------------- the package resolver
\* the names the fetch loop has passed to pkg fetch
Fetched == {fetch_log[i].package : i \in DOMAIN fetch_log}

\* lines 197-200: the packages directory and the empty set
MakePackagesDir ==
    /\ pc = "packages_dir"
    /\ packages' = {}
    /\ tmp_files' = tmp_files \cup {"packages"}
    /\ Goto("packages_app")
    /\ NoCall
    /\ UNCHANGED <<inputs, rendered, assembled, instances, outputs, dirty, version_name, builds, fetch_log,
                   md_exists, mfs_iso>>

\* lines 201-210, with a missing list read as an empty one
ReadAppPackagesMutantIgnoreMissing ==
    /\ pc = "packages_app"
    /\ packages' = IF builds.packages # None /\ app_pkg_file.exists
                   THEN packages \cup PackageNames(app_pkg_file.lines)
                   ELSE packages
    /\ Goto("packages_base")
    /\ NoCall
    /\ UNCHANGED <<inputs, rendered, assembled, instances, outputs, tmp_files, dirty, version_name, builds,
                   fetch_log, md_exists, mfs_iso>>

\* lines 201-210: the package list builds.yaml names, read from the source
ReadAppPackages ==
    /\ pc = "packages_app"
    /\ IF builds.packages # None
       THEN IF ~app_pkg_file.exists
            THEN /\ fatal_error("builds.yaml claimed there was a packages file",
                                <<builds.packages>>)
                 /\ UNCHANGED packages
            ELSE /\ packages' = packages \cup PackageNames(app_pkg_file.lines)
                 /\ Goto("packages_base") /\ UNCHANGED tmp_files
       ELSE Goto("packages_base") /\ UNCHANGED <<tmp_files, packages>>
    /\ NoCall
    /\ UNCHANGED <<inputs, rendered, assembled, instances, outputs, dirty, version_name, builds, fetch_log,
                   md_exists, mfs_iso>>

\* line 213: the base packages of packages.txt, opened in the current directory
ReadBasePackages ==
    /\ pc = "packages_base"
    /\ IF ~base_pkg_file.exists
       THEN Raise("FileNotFoundError") /\ UNCHANGED packages
       ELSE /\ packages' = packages \cup PackageNames(base_pkg_file.lines)
            /\ Goto("fetch") /\ UNCHANGED tmp_files
    /\ NoCall
    /\ UNCHANGED <<inputs, rendered, assembled, instances, outputs, dirty, version_name, builds, fetch_log,
                   md_exists, mfs_iso>>

\* lines 215-218, going on to the next package after a failure
FetchPackageMutantContinue ==
    /\ pc = "fetch"
    /\ \E package \in packages \ Fetched, status \in Status :
        /\ fetch_log' = Append(fetch_log, [package |-> package, status |-> status])
        /\ Call("pkg fetch", status)
        /\ Goto("fetch")
        /\ tmp_files' = IF status = 0 THEN tmp_files \cup {"packages/All"} ELSE tmp_files
    /\ UNCHANGED <<inputs, rendered, assembled, instances, outputs, dirty, version_name, builds, packages,
                   md_exists, mfs_iso>>

\* lines 215-218: one turn of the loop over the set, whose order is the
\* set's: pkg fetch puts the package under packages/All
FetchPackage ==
    /\ pc = "fetch"
    /\ \E package \in packages \ Fetched, status \in Status :
        /\ fetch_log' = Append(fetch_log, [package |-> package, status |-> status])
        /\ Call("pkg fetch", status)
        /\ IF status # 0
           THEN fatal_error("Could not install the package", package)
           ELSE Goto("fetch") /\ tmp_files' = tmp_files \cup {"packages/All"}
    /\ UNCHANGED <<inputs, rendered, assembled, instances, outputs, dirty, version_name, builds, packages,
                   md_exists, mfs_iso>>

\* line 215: the loop ends when the set is used up
FetchDone ==
    /\ pc = "fetch"
    /\ packages \subseteq Fetched
    /\ pc' = "embed"
    /\ stage' = "PackagesFetched"
    /\ NoCall
    /\ UNCHANGED <<inputs, rendered, assembled, instances, outputs, exit_code, stderr, tmp_state, tmp_files, dirty,
                   version_name, builds, packages, fetch_log, md_exists, mfs_iso>>

\* ----------------------------------------------------- the image assembler
\* line 85: where the source is, and every git command and the build script run
git_dir == IF args.in_place THEN repo_dir ELSE tmp_dir \o <<"src">>

\* line 223: where the source goes in the customfiles tree
app_dir == PathJoin(customfiles_dir, LStripSlash(AppDir(builds)))

\* lines 227-231: what the copy is to lose
delete_files ==
    {PathJoin(app_dir, <<".git">>), PathJoin(app_dir, <<"builds.yaml">>)}
        \cup (IF builds.customfiles # NoPath
              THEN {PathJoin(app_dir, builds.customfiles)} ELSE {})

\* lines 223-234: the source is copied under the customfiles tree (the status
\* of cp is not looked at) and .git, builds.yaml and the application's
\* customfiles are removed from the copy; makedirs raises if the tree
\* already holds the directory
\* cp -r git_dir/ app_dir gave this status: all the entries are copied, or
\* with a failure some are not
Copied(status) == IF status = 0 THEN {work_tree} ELSE (SUBSET work_tree) \ {work_tree}

EmbedSource ==
    /\ pc = "embed"
    /\ \/ /\ Raise("FileExistsError")
          /\ NoCall
          /\ UNCHANGED <<embedded, rm_paths>>
       \/ \E status \in Status : \E copied \in Copied(status) :
            /\ ran' = ran \cup {"cp source", "rm -rf"}
            /\ failed' = IF status # 0 THEN failed \cup {"cp source"} ELSE failed
            /\ rm_paths' = {Resolve(d) : d \in delete_files}
            /\ embedded' = {f \in {Resolve(app_dir \o e) : e \in copied} :
                               \A d \in delete_files : ~Under(Resolve(d), f)}
            /\ tmp_files' = tmp_files \cup {"customfiles/app_dir"}
            /\ Goto("md")
    /\ UNCHANGED <<inputs, rendered, ovf_ctx, ova_name, ova_members, instances, outputs, dirty, version_name, builds, packages,
                   fetch_log, md_exists, mfs_iso>>

\* lines 240-247: the base ISO is attached as /dev/md10 and mounted on
\* /tmp/cdrom, unless the device is there
SetupMemoryDisk ==
    /\ pc = "md"
    /\ IF ~md_exists
       THEN /\ CallIgnored({"mdconfig", "mkdir cdrom", "mount_cd9660"})
            /\ md_exists' \in BOOLEAN
       ELSE NoCall /\ UNCHANGED md_exists
    /\ Goto("mfs_clean")
    /\ UNCHANGED <<inputs, rendered, assembled, instances, outputs, tmp_files, dirty, version_name, builds,
                   packages, fetch_log, mfs_iso>>

\* lines 250-263: make clean and rm -f *.iso in the mfsbsd directory, then
\* packages/All is renamed packages/packages (os.rename raises when no fetch
\* has made packages/All), then with --pause the run waits for a line of input
PrepareMfs ==
    /\ pc = "mfs_clean"
    /\ CallIgnored({"make clean", "rm -f *.iso"})
    /\ mfs_iso' = FALSE
    /\ IF "packages/All" \in tmp_files
       THEN /\ tmp_files' = (tmp_files \ {"packages/All"}) \cup {"packages/packages"}
            /\ Goto("make_iso")
       ELSE Raise("FileNotFoundError")
    /\ UNCHANGED <<inputs, rendered, assembled, instances, outputs, dirty, version_name, builds, packages,
                   fetch_log, md_exists>>

\* lines 266-274: make iso; its exit status is not looked at
MakeIso ==
    /\ pc = "make_iso"
    /\ \E status \in Status :
        /\ Call("make iso", status)
        /\ mfs_iso' = (status = 0)
    /\ Goto("mv_iso")
    /\ UNCHANGED <<inputs, rendered, assembled, instances, outputs, tmp_files, dirty, version_name, builds,
                   packages, fetch_log, md_exists>>

\* lines 276-282: mv *.iso to customfiles/iso.iso; its exit status is not
\* looked at, and it is non-zero when no .iso is there to move
MoveIso ==
    /\ pc = "mv_iso"
    /\ \E status \in (IF mfs_iso THEN Status ELSE {1}) :
        /\ Call("mv iso", status)
        /\ mfs_iso' = IF status = 0 THEN FALSE ELSE mfs_iso
        /\ tmp_files' = IF status = 0 THEN tmp_files \cup {"customfiles/iso.iso"}
                        ELSE tmp_files
    /\ pc' = "ovf"
    /\ stage' = "ImageAssembled"
    /\ UNCHANGED <<inputs, rendered, assembled, instances, outputs, exit_code, stderr, tmp_state, dirty,
                   version_name, builds, packages, fetch_log, md_exists>>

\* the keywords of the call of line 283
OvfKeywords ==
    [app_name |-> <<AppName(builds)>>, flavor_name |-> <<args.flavor>>,
     version_name |-> <<version_name>>]

\* line 283: the OVF descriptor is rendered beside the ISO, with the flavor
\* and the keywords of the call as its variables
RenderOvf ==
    /\ pc = "ovf"
    /\ IF KeywordClash(builds.vars, OvfKeywords)
       THEN /\ Raise("TypeError")
            /\ UNCHANGED <<ran, ovf_ctx>>
       ELSE \/ /\ ran' = ran \cup {"render ovf"}
               /\ ovf_ctx' = Variables(builds.vars, OvfKeywords)
               /\ tmp_files' = tmp_files \cup {"customfiles/template.ovf"}
               /\ Goto("tar")
            \/ /\ Raise("TemplateError")
               /\ UNCHANGED <<ran, ovf_ctx>>
    /\ UNCHANGED <<inputs, rendered, embedded, rm_paths, ova_name, ova_members,
                   instances, outputs, failed, dirty, version_name, builds, packages,
                   fetch_log, md_exists, mfs_iso>>

\* line 279 without the prefix
OvaNameMutantNoPrefix ==
    Join(<<AppName(builds), args.flavor, version_name>>, ".") \o <<".ova">>

\* line 279: the name of the archive, as the sequence of its pieces
OvaName ==
    (IF args.prefix # None THEN <<args.prefix>>
     ELSE Join(<<AppName(builds), args.flavor, version_name>>, ".")) \o <<".ova">>

\* line 285: the files tar is told to archive, and whether one is there
Members == <<"customfiles/template.ovf", "customfiles/iso.iso">>
InTmp(file) == file \in tmp_files

\* line 285: tar writes the archive at the output path in the current
\* directory; its exit status is not looked at.  It fails when a member is
\* missing, and a tar that fails leaves no file or an incomplete one, with
\* the members that are there
Archive ==
    /\ pc = "tar"
    /\ \E status \in (IF {"customfiles/iso.iso", "customfiles/template.ovf"}
                            \subseteq tmp_files THEN Status ELSE {1}) :
        /\ Call("tar", status)
        /\ IF status = 0 THEN ova' = "complete" ELSE ova' \in {"absent", "partial"}
    /\ ova_name' = OvaName
    /\ ova_members' = IF ova' = "absent" THEN <<>> ELSE SelectSeq(Members, InTmp)
    /\ Goto("keep_iso")
    /\ UNCHANGED <<inputs, rendered, embedded, rm_paths, ovf_ctx, instances, iso_kept, tmp_files, dirty, version_name, builds,
                   packages, fetch_log, md_exists, mfs_iso>>

\* lines 287-288 and the end of the with block: with --iso the ISO is moved
\* beside the archive, its name built from the prefix (None + ".iso" is a
\* TypeError); then the run is over
KeepIso ==
    /\ pc = "keep_iso"
    /\ IF args.iso
       THEN IF args.prefix = None
            THEN Raise("TypeError") /\ NoCall /\ UNCHANGED iso_kept
            ELSE \E status \in (IF "customfiles/iso.iso" \in tmp_files
                                THEN Status ELSE {1}) :
                 /\ Call("mv iso out", status)
                 /\ iso_kept' = (status = 0)
                 /\ stage' = "ArtifactWritten"
                 /\ Exit(0)
                 /\ UNCHANGED stderr
       ELSE /\ NoCall
            /\ stage' = "ArtifactWritten"
            /\ Exit(0)
            /\ UNCHANGED <<stderr, iso_kept>>
    /\ UNCHANGED <<inputs, rendered, assembled, instances, ova, dirty, version_name, builds, packages, fetch_log,
                   md_exists, mfs_iso>>

\* ------------------------------------------------------ the specifications
Next ==
    \/ CheckArgs
    \/ EnterTmp
    \/ Fetch
    \/ Clone
    \/ DirtyCheck
    \/ Checkout
    \/ GetHash
    \/ LoadManifest
    \/ SelectFlavor
    \/ CustomfilesSrc
    \/ CustomfilesCheckout
    \/ CopyCustomfiles
    \/ MergeCustomfiles
    \/ RenderCustomfiles
    \/ RunScript
    \/ MakePackagesDir
    \/ ReadAppPackages
    \/ ReadBasePackages
    \/ FetchPackage
    \/ FetchDone
    \/ EmbedSource
    \/ SetupMemoryDisk
    \/ PrepareMfs
    \/ MakeIso
    \/ MoveIso
    \/ RenderOvf
    \/ Archive
    \/ KeepIso

\* a package-list file: whether it is there, and its lines
PkgFile(exists, lines) == [exists |-> exists, lines |-> lines]

\* the lines of the package lists: blank, padded, repeated
Lines == {<<>>, <<" ">>, <<"a">>, <<" ", "a", " ">>, <<"b", " ">>}

\* one source tree and one customfiles repository: a file of each kind
SourceTree == {<<".git">>, <<"builds.yaml">>, <<"deploy">>}
BaseTree == [p \in {"etc/motd", "etc/rc.conf"} |->
                IF p = "etc/motd" THEN <<"welcome", "\n">>
                ELSE <<"hostname=", "{{", "hostname", "}}", "\n">>]
OverlayTree == [p \in {"etc/rc.conf", "etc/app.conf"} |->
                   IF p = "etc/rc.conf" THEN <<"{{", "app_name", "}}", "_enable=YES", "\n">>
                   ELSE <<"dir=", "{{", "app_dir", "}}", "\n">>]

\* every command line, and two package lists
Init ==
    /\ InitWith(Args,
                {PkgFile(FALSE, <<>>), PkgFile(TRUE, << <<" ", "a", " ">>, <<"b", " ">> >>)},
                {PkgFile(TRUE, << <<"a">> >>)})
    /\ base_tree = BaseTree
    /\ overlay_tree = OverlayTree
    /\ work_tree = SourceTree

Spec == Init /\ [][Next]_vars

\* The package resolver on its own: the run as it enters line 197 after a
\* clone, with every pair of package lists of up to MaxLines lines.
PkgLists == {PkgFile(TRUE, l) : l \in SeqsUpTo(Lines, MaxLines)} \cup {PkgFile(FALSE, <<>>)}

InitPkg ==
    /\ pc = "packages_dir"
    /\ args = [in_place |-> FALSE, force |-> FALSE, iso |-> FALSE, prefix |-> None,
               flavor |-> "prod", scheme |-> "https", fragment |-> None]
    /\ app_pkg_file \in PkgLists
    /\ base_pkg_file \in PkgLists
    /\ stage = "CustomfilesRendered"
    /\ exit_code = <<>>
    /\ stderr = NoMessage
    /\ tmp_state = "present"
    /\ tmp_files = {"src", "hash.txt", "customfiles_src", "customfiles"}
    /\ dirty = FALSE
    /\ version_name = "date-hash"
    /\ builds \in {b \in Manifests : /\ b.flavors = <<"prod">>
                                     /\ b.customfiles = NoPath
                                     /\ ~b.script}
    /\ packages = {}
    /\ fetch_log = <<>>
    /\ ran = {"git clone", "git rev-parse", "customfiles copy", "render customfiles"}
    /\ failed = {}
    /\ md_exists = FALSE
    /\ mfs_iso = FALSE
    /\ ova = "absent"
    /\ iso_kept = FALSE
    /\ base_tree = BaseTree
    /\ overlay_tree = EmptyTree
    /\ work_tree = SourceTree
    /\ customfiles_tree = BaseTree
    /\ cf_ctx = NoContext
    /\ NothingAssembled
    /\ OneInstance

NextPkg ==
    \/ MakePackagesDir
    \/ ReadAppPackages
    \/ ReadBasePackages
    \/ FetchPackage
    \/ FetchDone

SpecPkg == InitPkg /\ [][NextPkg]_vars

\* The customfiles renderer on its own: the run as it enters line 161 after
\* a clone, with every pair of trees of up to two files, with and without
\* trailing newlines and expressions, and flavors with every kind of key.
Contents == {<<"welcome">>, <<"welcome", "\n">>, <<"a", "\n", "\n">>,
             <<"{{", "hostname", "}}">>, <<"{{", "app_name", "}}", "\n">>,
             <<"x", "{{", "motd", "}}">>}
Trees == UNION {[files -> Contents] : files \in SUBSET {"etc/motd", "etc/rc.conf"}}
Flavors == {NoContext,
            [hostname |-> <<"web1">>],
            [hostname |-> <<"{{", "app_name", "}}">>],
            [hostname |-> <<"web1">>, source |-> <<"ports">>],
            [app_name |-> <<"bar">>]}

InitRender ==
    /\ pc = "customfiles_cp"
    /\ args = [in_place |-> FALSE, force |-> FALSE, iso |-> FALSE, prefix |-> None,
               flavor |-> "prod", scheme |-> "https", fragment |-> None]
    /\ app_pkg_file = PkgFile(FALSE, <<>>)
    /\ base_pkg_file = PkgFile(TRUE, << <<"a">> >>)
    /\ stage = "ManifestResolved"
    /\ exit_code = <<>>
    /\ stderr = NoMessage
    /\ tmp_state = "present"
    /\ tmp_files = {"src", "hash.txt", "customfiles_src"}
    /\ dirty = FALSE
    /\ version_name = "date-hash"
    /\ \E overlay \in {NoPath, <<"deploy">>}, flavor \in Flavors :
          builds = [has_flavors |-> TRUE, flavors |-> <<"prod">>, customfiles |-> overlay,
                    script |-> FALSE, packages |-> None, name |-> "foo",
                    app_dir |-> NoPath, vars |-> flavor]
    /\ packages = {}
    /\ fetch_log = <<>>
    /\ ran = {"git clone", "git rev-parse", "customfiles copy"}
    /\ failed = {}
    /\ md_exists = FALSE
    /\ mfs_iso = FALSE
    /\ ova = "absent"
    /\ iso_kept = FALSE
    /\ base_tree \in Trees
    /\ overlay_tree \in IF builds.customfiles = NoPath THEN {EmptyTree} ELSE Trees
    /\ work_tree = SourceTree
    /\ NothingRendered
    /\ NothingAssembled
    /\ OneInstance

NextRender ==
    \/ CopyCustomfiles
    \/ MergeCustomfiles
    \/ RenderCustomfiles

SpecRender == InitRender /\ [][NextRender]_vars

\* The image assembler on its own: the run as it enters line 220 with its
\* packages fetched, for manifests whose customfiles and app_dir entries are
\* relative, absolute, nested, or climb with "..".
OverlayPaths == {NoPath, <<"deploy">>, <<"deploy", "files">>,
                 <<"/", "home", "repo", "deploy">>,
                 <<"..", "..", "..", "..", "..", "etc">>}
AppDirs == {NoPath, <<"/", "srv", "app">>, <<"srv">>,
            <<"/", "..", "..", "..", "home", "repo", "build">>}
SourceTrees == {{<<".git">>, <<"builds.yaml">>, <<"deploy">>, <<"main.py">>},
                {<<".git">>, <<"builds.yaml">>, <<"deploy">>, <<"deploy", "files">>,
                 <<"main.py">>}}

InitAsm ==
    /\ pc = "embed"
    /\ args \in [in_place : BOOLEAN, force : {FALSE}, iso : BOOLEAN,
                  prefix : {None, "out"}, flavor : {"prod"}, scheme : {"file"},
                  fragment : {None}]
    /\ app_pkg_file = PkgFile(FALSE, <<>>)
    /\ base_pkg_file = PkgFile(TRUE, << <<"a">> >>)
    /\ stage = "PackagesFetched"
    /\ exit_code = <<>>
    /\ stderr = NoMessage
    /\ tmp_state = "present"
    /\ tmp_files = (IF args.in_place THEN {} ELSE {"src"})
                      \cup {"hash.txt", "customfiles_src", "customfiles", "packages",
                            "packages/All"}
    /\ dirty = FALSE
    /\ version_name = "date-hash"
    /\ \E overlay \in OverlayPaths, dir \in AppDirs :
          builds = [has_flavors |-> TRUE, flavors |-> <<"prod">>, customfiles |-> overlay,
                    script |-> FALSE, packages |-> None, name |-> "foo",
                    app_dir |-> dir, vars |-> [hostname |-> <<"web1">>]]
    /\ packages = {<<"a">>}
    /\ fetch_log = <<[package |-> <<"a">>, status |-> 0]>>
    /\ ran = {IF args.in_place THEN "git fetch" ELSE "git clone", "git rev-parse",
              "customfiles copy", "render customfiles", "pkg fetch"}
              \cup (IF args.in_place THEN {"git diff-index"} ELSE {})
    /\ failed = {}
    /\ md_exists = FALSE
    /\ mfs_iso = FALSE
    /\ ova = "absent"
    /\ iso_kept = FALSE
    /\ base_tree = BaseTree
    /\ overlay_tree = IF builds.customfiles = NoPath THEN EmptyTree ELSE OverlayTree
    /\ work_tree \in SourceTrees
    /\ customfiles_tree =
          RenderTree(CopyOver(base_tree, overlay_tree),
                     Variables(builds.vars, CustomfilesKeywords))
    /\ cf_ctx = Variables(builds.vars, CustomfilesKeywords)
    /\ NothingAssembled
    /\ OneInstance

NextAsm ==
    \/ EmbedSource
    \/ SetupMemoryDisk
    \/ PrepareMfs
    \/ MakeIso
    \/ MoveIso
    \/ RenderOvf
    \/ Archive
    \/ KeepIso

SpecAsm == InitAsm /\ [][NextAsm]_vars

\* ---------------------------------------------- the memory disk, shared
\* Lines 243-247 step by step, for runs of the script that share the host:
\* /dev/md10 and /tmp/cdrom are the same for all of them, and nothing makes
\* the test of line 243 and the commands after it one step.
run == <<pc, args, stage, exit_code, stderr, tmp_state, tmp_files, dirty,
         version_name, builds, app_pkg_file, base_pkg_file, packages, fetch_log,
         ran, failed, mfs_iso, ova, iso_kept, base_tree, overlay_tree, work_tree,
         customfiles_tree, cf_ctx, embedded, rm_paths, ovf_ctx, ova_name, ova_members>>

\* run i issues a command: what it is, its exit status, and whether the
\* device was there when it was issued
Issue(i, cmd, status) ==
    md_cmds' = [md_cmds EXCEPT ![i] =
                   Append(@, [cmd |-> cmd, status |-> status, md |-> md_exists])]

\* line 243 with the commands issued whatever the test finds
MdCheckMutantNoTest(i) ==
    /\ md_pc[i] = "check"
    /\ md_pc' = [md_pc EXCEPT ![i] = "mdconfig"]
    /\ UNCHANGED <<run, md_exists, md_cmds>>

\* line 243: os.path.exists("/dev/md10")
MdCheck(i) ==
    /\ md_pc[i] = "check"
    /\ md_pc' = [md_pc EXCEPT ![i] = IF md_exists THEN "done" ELSE "mdconfig"]
    /\ UNCHANGED <<run, md_exists, md_cmds>>

\* line 244: mdconfig -a -u 10 attaches the ISO as md10, and fails when the
\* unit is in use; its status is not looked at
MdConfig(i) ==
    /\ md_pc[i] = "mdconfig"
    /\ \E status \in (IF md_exists THEN {1} ELSE Status) :
        /\ Issue(i, "mdconfig", status)
        /\ md_exists' = (md_exists \/ status = 0)
    /\ md_pc' = [md_pc EXCEPT ![i] = "mkdir"]
    /\ UNCHANGED run

\* line 245: mkdir -p /tmp/cdrom
MdMkdir(i) ==
    /\ md_pc[i] = "mkdir"
    /\ \E status \in Status : Issue(i, "mkdir cdrom", status)
    /\ md_pc' = [md_pc EXCEPT ![i] = "mount"]
    /\ UNCHANGED <<run, md_exists>>

\* line 246: mount_cd9660 /dev/md10 /tmp/cdrom, which fails without the device
MdMount(i) ==
    /\ md_pc[i] = "mount"
    /\ \E status \in (IF md_exists THEN Status ELSE {1}) :
        Issue(i, "mount_cd9660", status)
    /\ md_pc' = [md_pc EXCEPT ![i] = "done"]
    /\ UNCHANGED <<run, md_exists>>

\* up to MaxInstances runs, each about to make the test of line 243
InitMd ==
    /\ pc = "md"
    /\ args = [in_place |-> FALSE, force |-> FALSE, iso |-> FALSE, prefix |-> None,
               flavor |-> "prod", scheme |-> "https", fragment |-> None]
    /\ app_pkg_file = PkgFile(FALSE, <<>>)
    /\ base_pkg_file = PkgFile(TRUE, << <<"a">> >>)
    /\ stage = "PackagesFetched"
    /\ exit_code = <<>>
    /\ stderr = NoMessage
    /\ tmp_state = "present"
    /\ tmp_files = {"src", "hash.txt", "customfiles_src", "customfiles", "packages",
                    "packages/All", "customfiles/app_dir"}
    /\ dirty = FALSE
    /\ version_name = "date-hash"
    /\ builds = [has_flavors |-> TRUE, flavors |-> <<"prod">>, customfiles |-> NoPath,
                 script |-> FALSE, packages |-> None, name |-> "foo",
                 app_dir |-> NoPath, vars |-> NoContext]
    /\ packages = {<<"a">>}
    /\ fetch_log = <<[package |-> <<"a">>, status |-> 0]>>
    /\ ran = {"git clone", "git rev-parse", "customfiles copy", "render customfiles",
              "pkg fetch", "cp source", "rm -rf"}
    /\ failed = {}
    /\ md_exists \in BOOLEAN
    /\ mfs_iso = FALSE
    /\ ova = "absent"
    /\ iso_kept = FALSE
    /\ base_tree = BaseTree
    /\ overlay_tree = EmptyTree
    /\ work_tree = SourceTree
    /\ customfiles_tree = RenderTree(base_tree, Variables(builds.vars, CustomfilesKeywords))
    /\ cf_ctx = Variables(builds.vars, CustomfilesKeywords)
    /\ embedded = {}
    /\ rm_paths = {Resolve(d) : d \in delete_files}
    /\ ovf_ctx = NoContext
    /\ ova_name = <<>>
    /\ ova_members = <<>>
    /\ \E n \in 1..MaxInstances :
          /\ md_pc = [i \in 1..n |-> "check"]
          /\ md_cmds = [i \in 1..n |-> <<>>]

NextMd ==
    \/ \E i \in DOMAIN md_pc : MdCheck(i)
    \/ \E i \in DOMAIN md_pc : MdConfig(i)
    \/ \E i \in DOMAIN md_pc : MdMkdir(i)
    \/ \E i \in DOMAIN md_pc : MdMount(i)

SpecMd == InitMd /\ [][NextMd]_vars

\* ------------------------------------------------------------ the claims
Terminal == {"ArtifactWritten", "Aborted"}

\* the stage during which each operation of the run is made
OpStage(op) ==
    CASE op \in {"git fetch", "git clone", "git diff-index", "git checkout",
                 "git rev-parse"} -> "Start"
      [] op \in {"customfiles copy", "render customfiles"} -> "ManifestResolved"
      [] op \in {"build script", "pkg fetch"} -> "CustomfilesRendered"
      [] op \in {"cp source", "rm -rf", "mdconfig", "mkdir cdrom", "mount_cd9660",
                 "make clean", "rm -f *.iso", "make iso", "mv iso"} -> "PackagesFetched"
      [] op \in {"render ovf", "tar", "mv iso out"} -> "ImageAssembled"

C2_TmpDirRemoved ==
    /\ pc = "exited" => tmp_state # "present" /\ tmp_files = {}
    /\ tmp_state = "absent" => pc \in {"args", "mktemp", "exited"}

\* the run wrote the archive and then died of the TypeError of line 288
C2_Witness ==
    /\ pc = "exited"
    /\ tmp_state = "removed"
    /\ stderr.msg = "TypeError"
    /\ ova = "complete"

\* C3: once make iso has exited non-zero, the ISO is not renamed, the OVF
\* descriptor is not rendered, tar is not run, and the run ends Aborted.
C3_ImageBuildFailureAborts ==
    "make iso" \in failed =>
        /\ ran \cap {"mv iso", "render ovf", "tar"} = {}
        /\ pc = "exited" => stage = "Aborted"

\* the operations whose failure is to end the run with exit code 1
ListedOps == {"git fetch", "git clone", "git checkout", "git rev-parse",
              "customfiles copy", "build script", "pkg fetch", "cp source",
              "make iso", "mv iso", "tar"}

\* C4: the exit code is 0 only if none of the listed operations exited
\* non-zero, and it is 1 if one did.
C4_ExitCodeReflectsFailure ==
    /\ exit_code = <<0>> => failed \cap ListedOps = {}
    /\ pc = "exited" /\ failed \cap ListedOps # {} => exit_code = <<1>>

\* C5: there is a file at the .ova path only once tar has run and exited
\* zero, and none when a step of the image assembler has failed.
C5_NoArtifactUnlessArchived ==
    /\ ova # "absent" => "tar" \in ran \ failed
    /\ failed \cap {"cp source", "make iso", "mv iso", "tar"} # {} => ova = "absent"

\* C6: a pkg fetch that exits non-zero is the last one of the run: the run
\* has ended there with the message naming that package, no package is
\* fetched twice, and make iso is not run.
C6_FetchFailureAborts ==
    /\ \A i, j \in DOMAIN fetch_log :
          i # j => fetch_log[i].package # fetch_log[j].package
    /\ \A i \in DOMAIN fetch_log :
          fetch_log[i].status # 0 =>
             /\ i = Len(fetch_log)
             /\ pc = "exited"
             /\ exit_code = <<1>>
             /\ stderr = [msg |-> "Could not install the package",
                          arg |-> fetch_log[i].package]
             /\ "make iso" \notin ran

\* the first fetch of a set of two failed
C6_Witness ==
    /\ Len(fetch_log) = 1
    /\ fetch_log[1].status # 0
    /\ Cardinality(packages) = 2

DirtyMessage == "There are untracked changes in the repo"

\* C7: when git diff-index reports changes in an in-place run without
\* --force, the run has ended with the untracked-changes message, with no
\* packages directory made and no pkg fetch called; and the run ends with
\* that message in no other case (not with --force, not out of place).
C7_DirtyAbortsBeforePackages ==
    /\ args.in_place /\ dirty /\ ~args.force =>
          /\ pc = "exited"
          /\ exit_code = <<1>>
          /\ stderr.msg = DirtyMessage
          /\ "packages" \notin tmp_files
          /\ fetch_log = <<>>
          /\ "pkg fetch" \notin ran
    /\ stderr.msg = DirtyMessage => args.in_place /\ dirty /\ ~args.force

C7_Witness ==
    /\ stderr.msg = DirtyMessage
    /\ "git diff-index" \in failed

\* the forced in-place run on a dirty tree that went on to fetch packages
C7_ForcedWitness == args.in_place /\ dirty /\ args.force /\ fetch_log # <<>>

PackagesMissing == builds.packages # None /\ ~app_pkg_file.exists

\* C8: when builds.yaml names a package list that is not in the source, no
\* pkg fetch is ever called and the run never gets past reading the list:
\* once the customfiles are rendered and the build script has not failed,
\* it can only end with the message that names the configured path.
C8_MissingPackageList ==
    PackagesMissing =>
        /\ fetch_log = <<>>
        /\ "pkg fetch" \notin ran
        /\ pc \notin {"packages_base", "fetch", "embed", "md", "mfs_clean",
                      "make_iso", "mv_iso", "ovf", "tar", "keep_iso"}
        /\ stage # "ArtifactWritten"
        /\ pc = "exited" /\ "render customfiles" \in ran
             /\ "build script" \notin failed =>
               /\ stderr = [msg |-> "builds.yaml claimed there was a packages file",
                            arg |-> <<builds.packages>>]
               /\ exit_code = <<1>>

C8_Witness ==
    /\ PackagesMissing
    /\ stderr.msg = "builds.yaml claimed there was a packages file"
    /\ stderr.arg = <<"pkglist.txt">>

\* a line with the whitespace at its two ends taken off, when that leaves
\* something: the names a package list holds
TrimsOf(line) ==
    {SubSeq(line, t[1], t[2]) :
        t \in {u \in (1..Len(line)) \X (1..Len(line)) :
                  /\ u[1] <= u[2]
                  /\ line[u[1]] \notin Whitespace
                  /\ line[u[2]] \notin Whitespace
                  /\ \A k \in 1..Len(line) :
                        (k < u[1] \/ k > u[2]) => line[k] \in Whitespace}}

TrimmedLines(lines) == UNION {TrimsOf(lines[n]) : n \in DOMAIN lines}

ExpectedPackages ==
    (IF builds.packages # None THEN TrimmedLines(app_pkg_file.lines) ELSE {})
        \cup TrimmedLines(base_pkg_file.lines)

\* C9: pkg fetch is only ever called with a trimmed non-blank line of one
\* of the two lists, never twice with the same name, and when the loop has
\* ended with every fetch a success the names fetched are exactly the union
\* of the trimmed non-blank lines of the two lists, each fetched once.
C9_FetchedIsUnion ==
    /\ Fetched \subseteq ExpectedPackages
    /\ Len(fetch_log) = Cardinality(Fetched)
    /\ pc = "embed" =>
          /\ Fetched = ExpectedPackages
          /\ Len(fetch_log) = Cardinality(ExpectedPackages)
          /\ \A i \in DOMAIN fetch_log : fetch_log[i].status = 0

\* a name padded in one list and plain in the other, and a second name
C9_Witness ==
    /\ pc = "embed"
    /\ builds.packages # None
    /\ <<" ", "a", " ">> \in Range(app_pkg_file.lines)
    /\ <<"a">> \in Range(base_pkg_file.lines)
    /\ <<>> \in Range(app_pkg_file.lines) \cup Range(base_pkg_file.lines)
    /\ Cardinality(Fetched) = 2
    /\ Len(app_pkg_file.lines) + Len(base_pkg_file.lines) = 4

FlavorMissing == args.flavor \notin Range(GetFlavors(builds))

FlavorMessage == "Flavor not found. Choices are:"

\* C10: while the flavor asked for is not a key of the manifest's flavors
\* (or the manifest has none), no customfiles are copied or rendered, no
\* build script is run, no package is fetched and no image is built; once
\* the manifest is loaded the run can only end with the flavor message, and
\* that message lists every key of the manifest's flavors.
C10_FlavorNotFound ==
    /\ FlavorMissing =>
          /\ ran \cap {"customfiles copy", "render customfiles", "build script",
                       "pkg fetch", "make iso", "tar"} = {}
          /\ pc \in {"args", "mktemp", "acquire", "diff", "checkout", "hash",
                     "manifest", "flavor", "exited"}
          /\ pc = "exited" /\ "git rev-parse" \in ran
               /\ stderr.msg \notin {"TypeError", "YAMLError"} =>
                 /\ stderr.msg = FlavorMessage
                 /\ exit_code = <<1>>
    /\ stderr.msg = FlavorMessage =>
          /\ FlavorMissing
          /\ stderr.arg[1] = args.flavor
          /\ Range(GetFlavors(builds)) \subseteq Range(Tail(stderr.arg))

\* the message for a manifest of two flavors, neither the one asked for
C10_Witness ==
    /\ stderr.msg = FlavorMessage
    /\ Len(GetFlavors(builds)) = 2

\* the same for a manifest with no flavors entry
C10_NoEntryWitness ==
    /\ stderr.msg = FlavorMessage
    /\ ~builds.has_flavors
    /\ builds.packages # None

\* C11: once the copies and the render are done, the output tree has every
\* path of the base tree and of the application's overlay, and where both
\* have a path it holds the render of the overlay's content.
C11_OverlayPrecedence ==
    pc = "script" =>
        /\ DOMAIN base_tree \cup DOMAIN overlay_tree \subseteq DOMAIN customfiles_tree
        /\ \A p \in DOMAIN base_tree \cap DOMAIN overlay_tree :
              customfiles_tree[p] = Substitute(DropTrailingNewline(overlay_tree[p]), cf_ctx)

C11_Witness ==
    /\ pc = "script"
    /\ \E p \in DOMAIN base_tree \cap DOMAIN overlay_tree :
          /\ customfiles_tree[p] # base_tree[p]
          /\ customfiles_tree[p] # Substitute(DropTrailingNewline(base_tree[p]), cf_ctx)
    /\ DOMAIN base_tree # DOMAIN overlay_tree

\* the entries of the source the copy is to keep: all but .git, builds.yaml
\* and, when the manifest has a customfiles entry, the directory line 168
\* takes the overlay from
KeptEntries ==
    {e \in work_tree :
        /\ e \notin {<<".git">>, <<"builds.yaml">>}
        /\ builds.customfiles # NoPath =>
              ~Under(Resolve(PathJoin(git_dir, builds.customfiles)), Resolve(git_dir \o e))}

\* C12: once the source has been embedded and cleaned, the copy at the
\* install directory holds every entry of the working tree but .git,
\* builds.yaml and the overlay directory, and none of these.
C12_EmbeddedCopy ==
    "cp source" \in ran =>
        embedded = {Resolve(app_dir \o e) : e \in KeptEntries}

\* C13: the variables the OVF descriptor is rendered with are those of the
\* customfiles, every variable of the flavor and app_name, flavor_name and
\* app_dir with the same values, and version_name too.
C13_OvfContext ==
    "render ovf" \in ran =>
        /\ \A k \in DOMAIN builds.vars \cup {"app_name", "flavor_name", "app_dir"} :
              k \in DOMAIN ovf_ctx /\ ovf_ctx[k] = cf_ctx[k]
        /\ "version_name" \in DOMAIN ovf_ctx
        /\ ovf_ctx["version_name"] = <<version_name>>

\* a run that ended with exit code 0 and in which no operation failed
Successful == exit_code = <<0>> /\ failed = {}

\* C14: a successful run leaves one complete archive, named prefix.ova when
\* a prefix is given and app.flavor.version.ova otherwise, the version being
\* the fragment when there is one and the date and short hash otherwise, and
\* its entries are the OVF descriptor and the ISO, and no other.
C14_ArtifactName ==
    Successful =>
        /\ ova = "complete"
        /\ version_name = (IF args.fragment # None THEN args.fragment ELSE "date-hash")
        /\ ova_name = IF args.prefix # None THEN <<args.prefix, ".ova">>
                      ELSE <<AppName(builds), ".", args.flavor, ".", version_name, ".ova">>
        /\ Len(ova_members) = 2
        /\ Range(ova_members) = {"customfiles/template.ovf", "customfiles/iso.iso"}

C14_Witness ==
    /\ Successful
    /\ args.prefix = None
    /\ args.fragment = None
    /\ ova_name = <<"foo", ".", "prod", ".", "date-hash", ".ova">>

\* C15: with --iso, a run in which every operation up to the archive
\* succeeded ends with exit code 0, the complete archive and the ISO beside
\* it, with or without a prefix; without --iso no ISO is left beside it.
C15_IsoRetained ==
    /\ (args.iso /\ pc = "exited" /\ "tar" \in ran /\ failed = {}) =>
            /\ exit_code = <<0>>
            /\ ova = "complete"
            /\ iso_kept
    /\ ~args.iso => ~iso_kept

\* C16: rendering the rendered tree once more with the same variables
\* leaves every file as it is.
C16_RenderIdempotent ==
    pc = "script" =>
        \A p \in DOMAIN customfiles_tree :
            render_to_file(customfiles_tree[p], cf_ctx) = customfiles_tree[p]

\* C17: whatever the keys of the flavor, the render of the customfiles does
\* not end in a TypeError, and when it is done every file has been rendered
\* with the variables of the flavor and app_name, flavor_name and app_dir.
C17_AnyFlavorRenders ==
    /\ stderr.msg # "TypeError"
    /\ pc = "script" =>
          /\ DOMAIN cf_ctx = DOMAIN builds.vars \cup {"app_name", "flavor_name", "app_dir"}
          /\ \A k \in DOMAIN builds.vars : cf_ctx[k] = builds.vars[k]
          /\ \A p \in DOMAIN customfiles_tree :
                customfiles_tree[p] =
                    Render(CopyOver(base_tree, overlay_tree)[p], cf_ctx)

\* the commands of that name a run has issued
Issued(i, cmd) == {n \in DOMAIN md_cmds[i] : md_cmds[i][n].cmd = cmd}

\* C18: a run issues the attach and the mount at most once each; a run that
\* is alone on the host issues them only while the device is absent; and
\* with two runs nothing keeps both from issuing them for the same device
\* (the state C18_Witness describes).
C18_CheckThenAct ==
    /\ \A i \in DOMAIN md_cmds :
          /\ Cardinality(Issued(i, "mdconfig")) <= 1
          /\ Cardinality(Issued(i, "mount_cd9660")) <= 1
    /\ Len(md_pc) = 1 =>
          \A n \in Issued(1, "mdconfig") : ~md_cmds[1][n].md

C18_Witness ==
    /\ Len(md_pc) = 2
    /\ \A i \in {1, 2} : Issued(i, "mdconfig") # {} /\ Issued(i, "mount_cd9660") # {}
    /\ \E i \in {1, 2} : \E n \in Issued(i, "mdconfig") : md_cmds[i][n].md

\* C19: every file the cleanup calls rm -rf on lies in the copy of the
\* source, which lies in the customfiles tree of the temporary directory.
C19_CleanupInsideCopy ==
    \A p \in rm_paths :
        /\ Under(Resolve(app_dir), p)
        /\ Under(customfiles_dir, p)
        /\ Under(tmp_dir, p)

\* C20: a run that is not in place works in the temporary directory and
\* leaves the repository of --repo as it is, nothing is written to it or
\* removed from it; an in-place run stopped by uncommitted changes has run
\* neither the checkout nor the build script.
C20_RepoUnchanged ==
    /\ ~args.in_place =>
          /\ Under(tmp_dir, git_dir)
          /\ \A p \in rm_paths \cup embedded : ~Under(repo_dir, p)
    /\ (args.in_place /\ dirty /\ ~args.force) =>
          ran \cap {"git checkout", "build script"} = {}
====
